---- MODULE Spec2Model ----
(***************************************************************************)
(* Model of the offline telemetry generator of OpenFilamentSensor          *)
(* (tools/gcode_flow_sim.py): the Sample Chunker (chunk_extrusion) and the  *)
(* Extrusion Extractor (parse_gcode).                                       *)
(*                                                                         *)
(* Lengths are fixed-point integers in units of 1e-6 mm, so the source's   *)
(* tolerance 1e-6 is one unit (Eps) and 7.5 mm is 7500000.  Arithmetic on  *)
(* them is exact: binary floating-point rounding is not modelled.          *)
(***************************************************************************)
EXTENDS Integers, Sequences, FiniteSets, TLC

VARIABLES
    \* ---- chunk_extrusion ----
    interval_ms,          \* parameter
    max_chunk_mm,         \* parameter
    include_retractions,  \* parameter
    deltas,               \* the input deltas the for loop has taken so far
    timestamp,            \* local
    total,                \* local
    remaining,            \* local
    target_sign,          \* local
    ch_pc,                \* "for" | "while" | "done"
    samples               \* the tuples yielded so far, each tagged with the
                          \* index (of) of the input delta it was cut from

chunkVars == <<interval_ms, max_chunk_mm, include_retractions, deltas,
               timestamp, total, remaining, target_sign, ch_pc, samples>>

VARIABLES
    \* ---- parse_gcode ----
    absolute_mode,        \* local
    last_e,               \* local
    delta,                \* local: the delta of the last G0/G1 move
    raw_line,             \* local: the line read last
    prev_line,            \* the line read before it
    line_no,              \* the number of lines read so far
    yielded,              \* the deltas yielded so far
    pg_pc,                \* "read" | "done"
    clean                 \* absolute_mode, last_e and the deltas yielded of a
                          \* second run of parse_gcode, on the same file
                          \* without its garbage lines

parseVars == <<absolute_mode, last_e, delta, raw_line, prev_line, line_no,
               yielded, pg_pc, clean>>

VARIABLES
    \* ---- build_status_payload ----
    sp_delta, sp_total, sp_index, sp_count,   \* arguments
    sp_payload            \* the payload built, <<>> before the call

payloadVars == <<sp_delta, sp_total, sp_index, sp_count, sp_payload>>

VARIABLES
    \* ---- serve_samples, websocket_handler, stream_samples ----
    replay_samples,       \* parameter samples
    repeat,               \* parameter
    speed,                \* parameter, in thousandths (1000 is 1.0x)
    main_pc,              \* serve_samples: "setup" | "start" | "serving" |
                          \* "cleanup" | "stopped" | "aborted"
    listener,             \* the TCP site: "unbound" | "listening" | "released"
    conn                  \* per connection: the handler's position (pc), the
                          \* loop variable index, the state of the WebSocket
                          \* and of the client, the frames sent with the sleep
                          \* requested after each (log), the calls of
                          \* ws.close() and the exception in flight

serveVars == <<replay_samples, repeat, speed, main_pc, listener, conn>>

VARIABLES
    \* ---- main of gcode_flow_sim.py ----
    gcode_exists,         \* args.gcode.exists()
    args_serve,           \* args.serve
    args_output,          \* args.output: "table" | "json"
    main_samples,         \* samples = list(chunk_extrusion(...))
    served,               \* serve_samples was called (asyncio.run)
    stdout,               \* what print wrote: the formatter's lines and the
                          \* number of the "Generated n samples." line
    exit_status,          \* "running" | "ok" | "fatal"
    m_pc                  \* "exists" | "chunk" | "branch" | "done"

mainVars == <<gcode_exists, args_serve, args_output, main_samples, served,
              stdout, exit_status, m_pc>>

VARIABLES
    \* ---- main of extract_log_data.py ----
    input_opens,          \* whether open(input_file) succeeds
    output_file,          \* the output CSV: whether it exists and is open,
                          \* its header lines and the number of its rows
    last_timestamp, line_count, data_count,   \* locals
    log_line,             \* line: the line read last
    last_row,             \* <<the row written last>>
    anchor,               \* ghost: <<timestamp>> of the last line that had one
    lg_error,             \* the exception that left main, or "none"
    lg_pc                 \* "open_output" | "write_header" | "open_input" |
                          \* "read" | "done" | "failed"

logVars == <<input_opens, output_file, last_timestamp, line_count, data_count,
             log_line, last_row, anchor, lg_error, lg_pc>>

VARIABLES
    \* ---- temporarily_merge_secrets ----
    sc_ignore,            \* parameter ignore
    body_raises,          \* whether the body of the with statement raises
    secrets_file,         \* the file at secrets_path
    settings_file,        \* the file at settings_path
    settings_before,      \* ghost: the file at settings_path at entry
    original_text,        \* local
    yielded_value,        \* "none" | "True" | "False"
    sc_pc                 \* "enter" | "body" | "exited" | "exited_raising" |
                          \* "not_entered"

secretsVars == <<sc_ignore, body_raises, secrets_file, settings_file,
                 settings_before, original_text, yielded_value, sc_pc>>

\* the state of the other tools
toolVars == <<mainVars, logVars, secretsVars>>

vars == <<chunkVars, parseVars, payloadVars, serveVars, toolVars>>

----------------------------------------------------------------------------
\* Bounds of the model
MaxDeltas == 2      \* input deltas taken per run
MaxSamples == 4     \* samples yielded per run
MaxDelta == 5       \* small input deltas range over -MaxDelta..MaxDelta
MaxChunk == 3       \* small max_chunk_mm values range over -MaxChunk..MaxChunk
MaxInterval == 1    \* small interval_ms values range over -MaxInterval..MaxInterval
MaxLines == 3       \* lines read per run
MaxE == 1           \* small extrusion values range over -MaxE..MaxE
MaxIndex == 6       \* build_status_payload is called with index in 0..MaxIndex
MaxCount == 4       \* and with count in 0..MaxCount
MaxReplay == 2      \* samples in the list that is served
MaxOut == 2         \* samples in the list that main formats
MaxLogLines == 3    \* lines of the log that are read

\* 1e-6 mm, the tolerance of the source, in model units
Eps == 1

DeltaValues == (-MaxDelta..MaxDelta) \cup {7500000, -7500000}
MaxChunkValues == (-MaxChunk..MaxChunk) \cup {3000000}
IntervalValues == (-MaxInterval..MaxInterval) \cup {250}

----------------------------------------------------------------------------
\* Python built-ins
Abs(x) == IF x < 0 THEN -x ELSE x
Min(a, b) == IF a < b THEN a ELSE b

----------------------------------------------------------------------------
\* chunk_extrusion

TargetSign(d) == IF d > 0 THEN 1 ELSE -1

SkipsRetraction(d) == TargetSign(d) < 0 /\ ~include_retractions

AfterSkipNoTick(ts) == ts

AfterSkip(ts) == ts + interval_ms

ChunkValue(rem, sign) == Min(max_chunk_mm, rem) * sign

RemainingAfter(rem, chunk) == rem - Abs(chunk)

TotalAfterMagnitude(tot, chunk) == tot + Abs(chunk)

TotalAfter(tot, chunk) == tot + chunk

Sample(ts, chunk, tot) ==
    [timestamp_ms |-> ts, delta_mm |-> chunk, total_mm |-> tot, of |-> Len(deltas)]

TickAfterNoTick(ts) == ts

TickAfter(ts) == ts + interval_ms

ChunkInit ==
    /\ interval_ms \in IntervalValues
    /\ max_chunk_mm \in MaxChunkValues
    /\ include_retractions \in BOOLEAN
    /\ deltas = <<>>
    /\ timestamp = 0
    /\ total = 0
    /\ remaining = 0
    /\ target_sign = 1
    /\ ch_pc = "for"
    /\ samples = <<>>

\* for delta in deltas (d): a retraction that is not included costs one tick
ChunkSkip ==
    /\ ch_pc = "for"
    /\ Len(deltas) < MaxDeltas
    /\ \E d \in DeltaValues :
          /\ SkipsRetraction(d)
          /\ deltas' = Append(deltas, d)
          /\ target_sign' = TargetSign(d)
    /\ timestamp' = AfterSkip(timestamp)
    /\ UNCHANGED <<interval_ms, max_chunk_mm, include_retractions, total,
                   remaining, ch_pc, samples>>
    /\ UNCHANGED <<parseVars, payloadVars, serveVars, toolVars>>

\* for delta in deltas (d): any other delta enters the while loop
ChunkBegin ==
    /\ ch_pc = "for"
    /\ Len(deltas) < MaxDeltas
    /\ \E d \in DeltaValues :
          /\ ~SkipsRetraction(d)
          /\ deltas' = Append(deltas, d)
          /\ target_sign' = TargetSign(d)
          /\ remaining' = Abs(d)
    /\ ch_pc' = "while"
    /\ UNCHANGED <<interval_ms, max_chunk_mm, include_retractions, timestamp,
                   total, samples>>
    /\ UNCHANGED <<parseVars, payloadVars, serveVars, toolVars>>

\* one iteration of: while remaining > 1e-6
ChunkEmit ==
    /\ ch_pc = "while"
    /\ remaining > Eps
    /\ Len(samples) < MaxSamples
    /\ LET chunk == ChunkValue(remaining, target_sign)
           tot == TotalAfter(total, chunk)
       IN /\ remaining' = RemainingAfter(remaining, chunk)
          /\ total' = tot
          /\ samples' = Append(samples, Sample(timestamp, chunk, tot))
          /\ timestamp' = TickAfter(timestamp)
    /\ UNCHANGED <<interval_ms, max_chunk_mm, include_retractions, deltas,
                   target_sign, ch_pc>>
    /\ UNCHANGED <<parseVars, payloadVars, serveVars, toolVars>>

\* the while condition fails: back to the for loop
ChunkWhileExit ==
    /\ ch_pc = "while"
    /\ ~(remaining > Eps)
    /\ ch_pc' = "for"
    /\ UNCHANGED <<interval_ms, max_chunk_mm, include_retractions, deltas,
                   timestamp, total, remaining, target_sign, samples>>
    /\ UNCHANGED <<parseVars, payloadVars, serveVars, toolVars>>

\* the input iterable is exhausted: the generator returns
ChunkExhausted ==
    /\ ch_pc = "for"
    /\ ch_pc' = "done"
    /\ UNCHANGED <<interval_ms, max_chunk_mm, include_retractions, deltas,
                   timestamp, total, remaining, target_sign, samples>>
    /\ UNCHANGED <<parseVars, payloadVars, serveVars, toolVars>>

NextChunk ==
    \/ ChunkSkip
    \/ ChunkBegin
    \/ ChunkEmit
    \/ ChunkWhileExit
    \/ ChunkExhausted

\* the chunker before it is called with the defaults of build_arg_parser
ChunkIdle ==
    /\ interval_ms = 250
    /\ max_chunk_mm = 3000000
    /\ include_retractions = FALSE
    /\ deltas = <<>>
    /\ timestamp = 0
    /\ total = 0
    /\ remaining = 0
    /\ target_sign = 1
    /\ ch_pc = "for"
    /\ samples = <<>>

----------------------------------------------------------------------------
\* parse_gcode
\*
\* A line of the file is a sequence of whitespace-separated tokens [k, v]:
\* a command word (k is the word), an extrusion word E<number> (k = "E", v the
\* number), an E with no number after it (k = "E?"), another parameter word
\* (k = "X") or the comment sign (k = ";"), which hides the rest of the line.

Word(w) == [k |-> w, v |-> 0]
E(v) == [k |-> "E", v |-> v]

Commands == {"G0", "G1", "G90", "G91", "G92", "M82", "M83", "G28"}
EValues == (-MaxE..MaxE) \cup {5000000}

Lines ==
    {<<>>, <<Word(";"), Word("G1"), E(5000000)>>}
    \cup {<<Word(c)>> : c \in Commands}
    \cup {<<Word(c), E(v)>> : c \in {"G0", "G1", "G92", "G28"}, v \in EValues}
    \cup {<<Word(c), Word(";"), E(5000000)>> : c \in {"G1", "G92"}}
    \cup {<<Word("G1"), Word("X"), E(v)>> : v \in {5000000}}
    \cup {<<Word("G1"), Word("E?")>>}

\* raw_line.split(";", 1)[0].strip()
RECURSIVE Stripped(_)
Stripped(ln) ==
    IF ln = <<>> \/ Head(ln).k = ";" THEN <<>>
    ELSE <<Head(ln)>> \o Stripped(Tail(ln))

\* stripped.split()[0]
Command(stripped) == stripped[1].k

\* extract_extrusion_value: <<v>> for the first E<number>, <<>> for None
RECURSIVE ExtractExtrusionValue(_)
ExtractExtrusionValue(line) ==
    IF line = <<>> THEN <<>>
    ELSE IF Head(line).k = "E" THEN <<Head(line).v>>
    ELSE ExtractExtrusionValue(Tail(line))

YieldAlways(out, d) == Append(out, d)

\* if abs(delta) > 1e-6: yield delta
YieldIfMove(out, d) == IF Abs(d) > Eps THEN Append(out, d) ELSE out

AbsoluteDeltaFromZero(value, last) == value

\* delta = value - last_e
AbsoluteDelta(value, last) == value - last

\* a garbage line: blank or comment-only, an unrecognised command, or a G0/G1
\* with no parseable extrusion value
IsGarbage(ln) ==
    \/ Stripped(ln) = <<>>
    \/ /\ Stripped(ln) # <<>>
       /\ \/ Command(Stripped(ln))
                \notin {"M82", "G90", "M83", "G91", "G92", "G0", "G1"}
          \/ /\ Command(Stripped(ln)) \in {"G0", "G1"}
             /\ ExtractExtrusionValue(Stripped(ln)) = <<>>

\* the body of the for loop, run on the state st of the second run
ParsedBy(st, ln) ==
    LET stripped == Stripped(ln)
    IN IF stripped = <<>> THEN st
       ELSE LET command == Command(stripped)
                value == ExtractExtrusionValue(stripped)
            IN IF command \in {"M82", "G90"}
                   THEN [st EXCEPT !.absolute_mode = TRUE]
               ELSE IF command \in {"M83", "G91"}
                   THEN [st EXCEPT !.absolute_mode = FALSE]
               ELSE IF command = "G92"
                   THEN IF value # <<>> THEN [st EXCEPT !.last_e = value[1]]
                        ELSE st
               ELSE IF command \notin {"G0", "G1"} THEN st
               ELSE IF value = <<>> THEN st
               ELSE LET d == IF st.absolute_mode
                             THEN AbsoluteDelta(value[1], st.last_e)
                             ELSE value[1]
                    IN [absolute_mode |-> st.absolute_mode,
                        last_e |-> IF st.absolute_mode THEN value[1]
                                   ELSE st.last_e,
                        yielded |-> YieldIfMove(st.yielded, d)]

ParseInit ==
    /\ clean = [absolute_mode |-> TRUE, last_e |-> 0, yielded |-> <<>>]
    /\ absolute_mode = TRUE
    /\ last_e = 0
    /\ delta = 0
    /\ raw_line = <<>>
    /\ prev_line = <<>>
    /\ line_no = 0
    /\ yielded = <<>>
    /\ pg_pc = "read"

\* for raw_line in handle: the loop reads the line ln
Reads(ln) ==
    /\ pg_pc = "read"
    /\ line_no < MaxLines
    /\ line_no' = line_no + 1
    /\ prev_line' = raw_line
    /\ raw_line' = ln
    /\ clean' = IF IsGarbage(ln) THEN clean ELSE ParsedBy(clean, ln)

\* if not stripped: continue
ParseBlank ==
    /\ \E ln \in Lines :
          /\ Reads(ln)
          /\ Stripped(ln) = <<>>
    /\ UNCHANGED <<absolute_mode, last_e, delta, yielded, pg_pc>>
    /\ UNCHANGED <<chunkVars, payloadVars, serveVars, toolVars>>

\* if command in ("M82", "G90")
ParseSetAbsolute ==
    /\ \E ln \in Lines :
          /\ Reads(ln)
          /\ Stripped(ln) # <<>>
          /\ Command(Stripped(ln)) \in {"M82", "G90"}
    /\ absolute_mode' = TRUE
    /\ UNCHANGED <<last_e, delta, yielded, pg_pc>>
    /\ UNCHANGED <<chunkVars, payloadVars, serveVars, toolVars>>

ParseSetRelativeResetsOrigin ==
    /\ \E ln \in Lines :
          /\ Reads(ln)
          /\ Stripped(ln) # <<>>
          /\ Command(Stripped(ln)) \in {"M83", "G91"}
    /\ absolute_mode' = FALSE
    /\ last_e' = 0
    /\ UNCHANGED <<delta, yielded, pg_pc>>
    /\ UNCHANGED <<chunkVars, payloadVars, serveVars, toolVars>>

\* if command in ("M83", "G91")
ParseSetRelative ==
    /\ \E ln \in Lines :
          /\ Reads(ln)
          /\ Stripped(ln) # <<>>
          /\ Command(Stripped(ln)) \in {"M83", "G91"}
    /\ absolute_mode' = FALSE
    /\ UNCHANGED <<last_e, delta, yielded, pg_pc>>
    /\ UNCHANGED <<chunkVars, payloadVars, serveVars, toolVars>>

\* if command == "G92"
ParseG92 ==
    /\ \E ln \in Lines :
          /\ Reads(ln)
          /\ Stripped(ln) # <<>>
          /\ Command(Stripped(ln)) = "G92"
          /\ LET value == ExtractExtrusionValue(Stripped(ln))
             IN last_e' = IF value # <<>> THEN value[1] ELSE last_e
    /\ UNCHANGED <<absolute_mode, delta, yielded, pg_pc>>
    /\ UNCHANGED <<chunkVars, payloadVars, serveVars, toolVars>>

\* if command not in ("G0", "G1"): continue
ParseOther ==
    /\ \E ln \in Lines :
          /\ Reads(ln)
          /\ Stripped(ln) # <<>>
          /\ Command(Stripped(ln))
                 \notin {"M82", "G90", "M83", "G91", "G92", "G0", "G1"}
    /\ UNCHANGED <<absolute_mode, last_e, delta, yielded, pg_pc>>
    /\ UNCHANGED <<chunkVars, payloadVars, serveVars, toolVars>>

ParseMoveNoValueAsZero ==
    /\ \E ln \in Lines :
          /\ Reads(ln)
          /\ Stripped(ln) # <<>>
          /\ Command(Stripped(ln)) \in {"G0", "G1"}
          /\ ExtractExtrusionValue(Stripped(ln)) = <<>>
          /\ LET d == IF absolute_mode THEN AbsoluteDelta(0, last_e) ELSE 0
             IN /\ delta' = d
                /\ last_e' = IF absolute_mode THEN 0 ELSE last_e
                /\ yielded' = YieldIfMove(yielded, d)
    /\ UNCHANGED <<absolute_mode, pg_pc>>
    /\ UNCHANGED <<chunkVars, payloadVars, serveVars, toolVars>>

\* G0/G1 with no extrusion value: if value is None: continue
ParseMoveNoValue ==
    /\ \E ln \in Lines :
          /\ Reads(ln)
          /\ Stripped(ln) # <<>>
          /\ Command(Stripped(ln)) \in {"G0", "G1"}
          /\ ExtractExtrusionValue(Stripped(ln)) = <<>>
    /\ UNCHANGED <<absolute_mode, last_e, delta, yielded, pg_pc>>
    /\ UNCHANGED <<chunkVars, payloadVars, serveVars, toolVars>>

\* variant of ParseMove in which a relative move advances last_e by its value
ParseMoveTracksRelative ==
    /\ \E ln \in Lines :
          /\ Reads(ln)
          /\ Stripped(ln) # <<>>
          /\ Command(Stripped(ln)) \in {"G0", "G1"}
          /\ ExtractExtrusionValue(Stripped(ln)) # <<>>
          /\ LET value == ExtractExtrusionValue(Stripped(ln))[1]
                 d == IF absolute_mode THEN AbsoluteDelta(value, last_e) ELSE value
             IN /\ delta' = d
                /\ last_e' = IF absolute_mode THEN value ELSE last_e + value
                /\ yielded' = YieldIfMove(yielded, d)
    /\ UNCHANGED <<absolute_mode, pg_pc>>
    /\ UNCHANGED <<chunkVars, payloadVars, serveVars, toolVars>>

\* G0/G1 with an extrusion value
ParseMove ==
    /\ \E ln \in Lines :
          /\ Reads(ln)
          /\ Stripped(ln) # <<>>
          /\ Command(Stripped(ln)) \in {"G0", "G1"}
          /\ ExtractExtrusionValue(Stripped(ln)) # <<>>
          /\ LET value == ExtractExtrusionValue(Stripped(ln))[1]
                 d == IF absolute_mode THEN AbsoluteDelta(value, last_e) ELSE value
             IN /\ delta' = d
                /\ last_e' = IF absolute_mode THEN value ELSE last_e
                /\ yielded' = YieldIfMove(yielded, d)
    /\ UNCHANGED <<absolute_mode, pg_pc>>
    /\ UNCHANGED <<chunkVars, payloadVars, serveVars, toolVars>>

\* end of file: the generator returns
ParseEof ==
    /\ pg_pc = "read"
    /\ pg_pc' = "done"
    /\ UNCHANGED <<absolute_mode, last_e, delta, raw_line, prev_line, line_no,
                   yielded, clean>>
    /\ UNCHANGED <<chunkVars, payloadVars, serveVars, toolVars>>

NextParse ==
    \/ ParseBlank
    \/ ParseSetAbsolute
    \/ ParseSetRelative
    \/ ParseG92
    \/ ParseOther
    \/ ParseMoveNoValue
    \/ ParseMove
    \/ ParseEof
----------------------------------------------------------------------------
\* build_status_payload.  The payload is modelled by the decoded JSON object;
\* extrusion lengths of the server are in units of 1e-7 mm, so that
\* round(x, 6) has a digit to round away.

Max(a, b) == IF a > b THEN a ELSE b

\* round(x, 6): to the nearest multiple of 1e-6 mm, ties to even
Round6Truncating(x) == x - (x % 10)

Round6(x) ==
    LET q == x \div 10
        r == x % 10
    IN IF r < 5 THEN 10 * q
       ELSE IF r > 5 THEN 10 * (q + 1)
       ELSE IF q % 2 = 0 THEN 10 * q ELSE 10 * (q + 1)

ProgressUnclamped(index, count) == IF count <= 0 THEN 0 ELSE (index * 100) \div count

Progress(index, count) ==
    IF count <= 0 THEN 0 ELSE Min(100, Max(0, (index * 100) \div count))

CurrentTicksUnclamped(index, count) == IF count <= 0 THEN 0 ELSE index

CurrentTicks(index, count) == IF count <= 0 THEN 0 ELSE Min(index, count)

TotalTicks(count) == IF count <= 0 THEN 0 ELSE count

BuildStatusPayload(d, t, index, count) ==
    [Topic |-> "status/simulator",
     CurrentStatus |-> <<1>>,
     Status |-> 13,
     CurrentLayer |-> 0,
     TotalLayer |-> 0,
     Progress |-> Progress(index, count),
     CurrentTicks |-> CurrentTicks(index, count),
     TotalTicks |-> TotalTicks(count),
     PrintSpeedPct |-> 100,
     CurrentExtrusion |-> Round6(d),
     TotalExtrusion |-> Round6(t),
     MainboardID |-> "SIMULATOR"]

\* extrusion lengths of the samples served and built into payloads
ExtrusionValues == {17, -26}

TotalValues == {34, 8}

PayloadInit ==
    /\ sp_delta \in ExtrusionValues
    /\ sp_total \in TotalValues
    /\ sp_index \in 0..MaxIndex
    /\ sp_count \in 0..MaxCount
    /\ sp_payload = <<>>

PayloadIdle ==
    /\ sp_delta = 0
    /\ sp_total = 0
    /\ sp_index = 0
    /\ sp_count = 0
    /\ sp_payload = <<>>

BuildPayload ==
    /\ sp_payload = <<>>
    /\ sp_payload' = BuildStatusPayload(sp_delta, sp_total, sp_index, sp_count)
    /\ UNCHANGED <<sp_delta, sp_total, sp_index, sp_count>>
    /\ UNCHANGED <<chunkVars, parseVars, serveVars, toolVars>>

NextPayload == BuildPayload

----------------------------------------------------------------------------
\* serve_samples, websocket_handler and stream_samples.  Every await of the
\* code is a position where the task rests and where a cancellation is
\* delivered; the code between two awaits is one step.  aiohttp is the
\* environment: a send on a connection whose client is gone raises, and
\* runner.cleanup() stops the site, cancels the handlers still running and
\* returns when they have ended.

Conns == {1, 2}

SpeedFloor == 1          \* 1e-3, in thousandths

SpeedValues == {0, 2000}

\* the samples a served list is made of: equal, increasing and decreasing
\* timestamps and a first timestamp other than 0 all occur
ReplaySamples ==
    {[timestamp_ms |-> 0, delta_mm |-> 17, total_mm |-> 34],
     [timestamp_ms |-> 250, delta_mm |-> -26, total_mm |-> 8]}

ReplayLists == UNION {[1..n -> ReplaySamples] : n \in 1..MaxReplay}

\* frames of a connection are recorded up to this many
RecordLimit == MaxReplay + 2

NoConn ==
    [pc |-> "none", index |-> 0, open |-> FALSE, client |-> "none",
     log |-> <<>>, closes |-> 0, exc |-> "none"]

ServeInit ==
    /\ replay_samples \in ReplayLists
    /\ repeat \in BOOLEAN
    /\ speed \in SpeedValues
    /\ main_pc = "setup"
    /\ listener = "unbound"
    /\ conn = [c \in Conns |-> NoConn]

ServeIdle ==
    /\ replay_samples = <<>>
    /\ repeat = FALSE
    /\ speed = 1000
    /\ main_pc = "stopped"
    /\ listener = "unbound"
    /\ conn = [c \in Conns |-> NoConn]

\* count = len(samples)
SampleCount == Len(replay_samples)

\* enumerate(samples) of a call starts at 0 whatever other calls are doing
StartIndexShared(c) ==
    LET others == {conn[d].index : d \in Conns \ {c}}
    IN CHOOSE i \in others : \A j \in others : j <= i

StartIndex(c) == 0

\* the for loop of the next pass calls enumerate(samples) again: the pass
\* after the one that ended at index starts at 0
NextPassIndexStays(index) == index

NextPassIndex(index) == 0

\* if not repeat: break
LoopsAgainAlways == TRUE

LoopsAgainNever == FALSE

LoopsAgain == repeat

\* delay_ms after the sample at index
DelayMsAbsolute(index) ==
    IF index + 1 < SampleCount
    THEN replay_samples[index + 2].timestamp_ms
    ELSE IF repeat THEN replay_samples[1].timestamp_ms ELSE 0

DelayMs(index) ==
    IF index + 1 < SampleCount
    THEN replay_samples[index + 2].timestamp_ms
             - replay_samples[index + 1].timestamp_ms
    ELSE IF repeat THEN replay_samples[1].timestamp_ms ELSE 0

\* the argument of asyncio.sleep, in seconds, as the fraction num / den
SleepArg(index) ==
    [num |-> Max(DelayMs(index), 0), den |-> Max(speed, SpeedFloor)]

\* the frame sent for the sample at index
FrameAtNext(index) ==
    LET next == ((index + 1) % SampleCount) + 1
    IN BuildStatusPayload(replay_samples[next].delta_mm,
                          replay_samples[next].total_mm, index, SampleCount)

FrameAt(index) ==
    BuildStatusPayload(replay_samples[index + 1].delta_mm,
                       replay_samples[index + 1].total_mm, index, SampleCount)

Recorded(log, entry) ==
    IF Len(log) < RecordLimit THEN Append(log, entry) ELSE log

\* variant without the try/finally: the handler ends without ws.close()
EntersFinallySkipsClose(r, e) ==
    [r EXCEPT !.pc = IF e = "none" THEN "returned" ELSE "raised", !.exc = e]

\* the finally clause is entered: ws.close() is called
EntersFinally(r, e) ==
    [r EXCEPT !.pc = "close", !.closes = @ + 1, !.exc = e]

\* await runner.setup()
SiteSetup ==
    /\ main_pc = "setup"
    /\ main_pc' = "start"
    /\ UNCHANGED <<replay_samples, repeat, speed, listener, conn>>
    /\ UNCHANGED <<chunkVars, parseVars, payloadVars, toolVars>>

\* await site.start(): the socket is bound and listens
SiteStart ==
    /\ main_pc = "start"
    /\ main_pc' = "serving"
    /\ listener' = "listening"
    /\ UNCHANGED <<replay_samples, repeat, speed, conn>>
    /\ UNCHANGED <<chunkVars, parseVars, payloadVars, toolVars>>

\* CancelledError at await runner.setup() or at await site.start(), which
\* are outside the try statement: serve_samples ends with the exception
CancelBeforeServing ==
    /\ main_pc \in {"setup", "start"}
    /\ main_pc' = "aborted"
    /\ UNCHANGED <<replay_samples, repeat, speed, listener, conn>>
    /\ UNCHANGED <<chunkVars, parseVars, payloadVars, toolVars>>

\* CancelledError at await asyncio.sleep(3600): caught, the finally clause
\* calls runner.cleanup()
CancelServingNoCleanup ==
    /\ main_pc = "serving"
    /\ main_pc' = "aborted"
    /\ UNCHANGED <<replay_samples, repeat, speed, listener, conn>>
    /\ UNCHANGED <<chunkVars, parseVars, payloadVars, toolVars>>

CancelServing ==
    /\ main_pc = "serving"
    /\ main_pc' = "cleanup"
    /\ UNCHANGED <<replay_samples, repeat, speed, listener, conn>>
    /\ UNCHANGED <<chunkVars, parseVars, payloadVars, toolVars>>

\* runner.cleanup(): the site stops listening
CleanupStopSite ==
    /\ main_pc = "cleanup"
    /\ listener = "listening"
    /\ listener' = "released"
    /\ UNCHANGED <<replay_samples, repeat, speed, main_pc, conn>>
    /\ UNCHANGED <<chunkVars, parseVars, payloadVars, toolVars>>

\* runner.cleanup(): a handler still running is cancelled; CancelledError
\* is raised at its await ws.send_str(...) or at its await asyncio.sleep(...)
CleanupCancelHandler(c) ==
    /\ main_pc = "cleanup"
    /\ listener = "released"
    /\ conn[c].pc \in {"send", "sleep"}
    /\ conn' = [conn EXCEPT ![c] = EntersFinally(@, "cancelled")]
    /\ UNCHANGED <<replay_samples, repeat, speed, main_pc, listener>>
    /\ UNCHANGED <<chunkVars, parseVars, payloadVars, toolVars>>

\* runner.cleanup() returns and serve_samples with it
CleanupDone ==
    /\ main_pc = "cleanup"
    /\ listener = "released"
    /\ \A c \in Conns : conn[c].pc \in {"none", "returned", "raised"}
    /\ main_pc' = "stopped"
    /\ UNCHANGED <<replay_samples, repeat, speed, listener, conn>>
    /\ UNCHANGED <<chunkVars, parseVars, payloadVars, toolVars>>

\* a client connects: ws.prepare(request), then stream_samples up to its
\* first await
Accept(c) ==
    /\ listener = "listening"
    /\ conn[c].pc = "none"
    /\ conn' = [conn EXCEPT ![c] =
          IF SampleCount = 0
          THEN EntersFinally([@ EXCEPT !.open = TRUE, !.client = "connected"],
                             "none")
          ELSE [@ EXCEPT !.open = TRUE, !.client = "connected",
                         !.pc = "send", !.index = StartIndex(c)]]
    /\ UNCHANGED <<replay_samples, repeat, speed, main_pc, listener>>
    /\ UNCHANGED <<chunkVars, parseVars, payloadVars, toolVars>>

\* await ws.send_str(build_status_payload(...)) succeeds; delay_ms is
\* computed and asyncio.sleep is awaited
Send(c) ==
    /\ conn[c].pc = "send"
    /\ conn[c].client = "connected"
    /\ conn' = [conn EXCEPT ![c] =
          [@ EXCEPT !.pc = "sleep",
                    !.log = Recorded(@, [frame |-> FrameAt(conn[c].index),
                                         index |-> conn[c].index,
                                         sleep |-> SleepArg(conn[c].index)])]]
    /\ UNCHANGED <<replay_samples, repeat, speed, main_pc, listener>>
    /\ UNCHANGED <<chunkVars, parseVars, payloadVars, toolVars>>

\* await ws.send_str(...) raises: the client is gone
SendFailsIgnored(c) ==
    /\ conn[c].pc = "send"
    /\ conn[c].client = "gone"
    /\ conn' = [conn EXCEPT ![c] = [@ EXCEPT !.pc = "sleep"]]
    /\ UNCHANGED <<replay_samples, repeat, speed, main_pc, listener>>
    /\ UNCHANGED <<chunkVars, parseVars, payloadVars, toolVars>>

SendFails(c) ==
    /\ conn[c].pc = "send"
    /\ conn[c].client = "gone"
    /\ conn' = [conn EXCEPT ![c] = EntersFinally(@, "send_failed")]
    /\ UNCHANGED <<replay_samples, repeat, speed, main_pc, listener>>
    /\ UNCHANGED <<chunkVars, parseVars, payloadVars, toolVars>>

\* asyncio.sleep returns: the next sample, the next pass, or the end of
\* stream_samples
Wake(c) ==
    /\ conn[c].pc = "sleep"
    /\ conn' = [conn EXCEPT ![c] =
          IF conn[c].index + 1 < SampleCount
          THEN [@ EXCEPT !.pc = "send", !.index = @ + 1]
          ELSE IF LoopsAgain
          THEN [@ EXCEPT !.pc = "send", !.index = NextPassIndex(conn[c].index)]
          ELSE EntersFinally(@, "none")]
    /\ UNCHANGED <<replay_samples, repeat, speed, main_pc, listener>>
    /\ UNCHANGED <<chunkVars, parseVars, payloadVars, toolVars>>

\* await ws.close() returns; websocket_handler returns ws, or the exception
\* in flight leaves it
CloseDone(c) ==
    /\ conn[c].pc = "close"
    /\ conn' = [conn EXCEPT ![c] =
          [@ EXCEPT !.open = FALSE,
                    !.pc = IF conn[c].exc = "none" THEN "returned" ELSE "raised"]]
    /\ UNCHANGED <<replay_samples, repeat, speed, main_pc, listener>>
    /\ UNCHANGED <<chunkVars, parseVars, payloadVars, toolVars>>

\* the client disconnects, or the link to it breaks, while the replay runs
ClientGone(c) ==
    /\ conn[c].client = "connected"
    /\ conn[c].pc \in {"send", "sleep"}
    /\ conn' = [conn EXCEPT ![c] = [@ EXCEPT !.client = "gone"]]
    /\ UNCHANGED <<replay_samples, repeat, speed, main_pc, listener>>
    /\ UNCHANGED <<chunkVars, parseVars, payloadVars, toolVars>>

HandlerStep(c) == Send(c) \/ SendFails(c) \/ Wake(c) \/ CloseDone(c)

NextServe ==
    \/ SiteSetup
    \/ SiteStart
    \/ CancelBeforeServing
    \/ CancelServing
    \/ CleanupStopSite
    \/ \E c \in Conns : CleanupCancelHandler(c)
    \/ CleanupDone
    \/ \E c \in Conns : Accept(c)
    \/ \E c \in Conns : Send(c)
    \/ \E c \in Conns : SendFails(c)
    \/ \E c \in Conns : Wake(c)
    \/ \E c \in Conns : CloseDone(c)
    \/ \E c \in Conns : ClientGone(c)

----------------------------------------------------------------------------
\* main of gcode_flow_sim.py, format_table and format_json.  The text a
\* formatter returns is modelled by the sequence of its lines; lengths are
\* in units of 1e-7 mm as in the server.

\* f"{x:.4f}": the number of 1e-4 mm nearest to x, ties to even
Fixed4(x) ==
    LET q == x \div 1000
        r == x % 1000
    IN IF r < 500 THEN q
       ELSE IF r > 500 THEN q + 1
       ELSE IF q % 2 = 0 THEN q ELSE q + 1

TableHeader == "timestamp_ms,delta_mm,total_mm"

FormatTableNoHeader(ss) ==
    [k \in 1..Len(ss) |->
        <<ss[k].timestamp_ms, Fixed4(ss[k].delta_mm), Fixed4(ss[k].total_mm)>>]

FormatTable(ss) ==
    <<TableHeader>> \o
    [k \in 1..Len(ss) |->
        <<ss[k].timestamp_ms, Fixed4(ss[k].delta_mm), Fixed4(ss[k].total_mm)>>]

FormatJson(ss) ==
    [k \in 1..Len(ss) |->
        [timestamp_ms |-> ss[k].timestamp_ms,
         CurrentExtrusion |-> Round6(ss[k].delta_mm),
         TotalExtrusion |-> Round6(ss[k].total_mm)]]

\* if not samples
NoSamplesNever(ss) == FALSE

NoSamples(ss) == ss = <<>>

\* the samples the chunker hands to main
OutputSamples ==
    ReplaySamples \cup
    {[timestamp_ms |-> 500, delta_mm |-> 30000000, total_mm |-> 30004567]}

OutputLists == UNION {[1..n -> OutputSamples] : n \in 0..MaxOut}

MainInit ==
    /\ gcode_exists \in BOOLEAN
    /\ args_serve \in BOOLEAN
    /\ args_output \in {"table", "json"}
    /\ main_samples = <<>>
    /\ served = FALSE
    /\ stdout = <<>>
    /\ exit_status = "running"
    /\ m_pc = "exists"

MainIdle ==
    /\ gcode_exists = FALSE
    /\ args_serve = FALSE
    /\ args_output = "table"
    /\ main_samples = <<>>
    /\ served = FALSE
    /\ stdout = <<>>
    /\ exit_status = "running"
    /\ m_pc = "done"

\* if not args.gcode.exists(): raise SystemExit(...)
MainFileMissing ==
    /\ m_pc = "exists"
    /\ ~gcode_exists
    /\ exit_status' = "fatal"
    /\ m_pc' = "done"
    /\ UNCHANGED <<gcode_exists, args_serve, args_output, main_samples, served,
                   stdout>>
    /\ UNCHANGED <<chunkVars, parseVars, payloadVars, serveVars, logVars,
                   secretsVars>>

MainFileFound ==
    /\ m_pc = "exists"
    /\ gcode_exists
    /\ m_pc' = "chunk"
    /\ UNCHANGED <<gcode_exists, args_serve, args_output, main_samples, served,
                   stdout, exit_status>>
    /\ UNCHANGED <<chunkVars, parseVars, payloadVars, serveVars, logVars,
                   secretsVars>>

\* samples = list(chunk_extrusion(parse_gcode(args.gcode), ...))
MainChunk ==
    /\ m_pc = "chunk"
    /\ main_samples' \in OutputLists
    /\ m_pc' = "branch"
    /\ UNCHANGED <<gcode_exists, args_serve, args_output, served, stdout,
                   exit_status>>
    /\ UNCHANGED <<chunkVars, parseVars, payloadVars, serveVars, logVars,
                   secretsVars>>

\* --serve without samples: raise SystemExit(...)
MainServeEmpty ==
    /\ m_pc = "branch"
    /\ args_serve
    /\ NoSamples(main_samples)
    /\ exit_status' = "fatal"
    /\ m_pc' = "done"
    /\ UNCHANGED <<gcode_exists, args_serve, args_output, main_samples, served,
                   stdout>>
    /\ UNCHANGED <<chunkVars, parseVars, payloadVars, serveVars, logVars,
                   secretsVars>>

\* asyncio.run(serve_samples(samples, ...))
MainServe ==
    /\ m_pc = "branch"
    /\ args_serve
    /\ ~NoSamples(main_samples)
    /\ served' = TRUE
    /\ exit_status' = "ok"
    /\ m_pc' = "done"
    /\ UNCHANGED <<gcode_exists, args_serve, args_output, main_samples, stdout>>
    /\ UNCHANGED <<chunkVars, parseVars, payloadVars, serveVars, logVars,
                   secretsVars>>

\* print(formatter(samples)); print(f"\nGenerated {len(samples)} samples.")
MainPrint ==
    /\ m_pc = "branch"
    /\ ~args_serve
    /\ stdout' = <<IF args_output = "table" THEN FormatTable(main_samples)
                   ELSE FormatJson(main_samples),
                   [generated |-> Len(main_samples)]>>
    /\ exit_status' = "ok"
    /\ m_pc' = "done"
    /\ UNCHANGED <<gcode_exists, args_serve, args_output, main_samples, served>>
    /\ UNCHANGED <<chunkVars, parseVars, payloadVars, serveVars, logVars,
                   secretsVars>>

NextMain ==
    \/ MainFileMissing
    \/ MainFileFound
    \/ MainChunk
    \/ MainServeEmpty
    \/ MainServe
    \/ MainPrint

----------------------------------------------------------------------------
\* extract_log_data.py.  A log line is its timestamp prefix, whether it
\* holds the text "Flow:", and for each field name either Absent or the
\* characters that follow "name=".  Numbers are in thousandths.

DigitChars == {"0", "1", "2", "5", "7"}

DigitValue == ("0" :> 0) @@ ("1" :> 1) @@ ("2" :> 2) @@ ("5" :> 5) @@ ("7" :> 7)

\* the text matched by [\d.]+ at the start of tok: its longest prefix of
\* digits and dots, <<>> when the pattern does not match
RECURSIVE NumberPrefix(_)
NumberPrefix(tok) ==
    IF tok = <<>> \/ Head(tok) \notin DigitChars \cup {"."}
    THEN <<>>
    ELSE <<Head(tok)>> \o NumberPrefix(Tail(tok))

\* the text matched by \d+ at the start of tok
RECURSIVE DigitPrefix(_)
DigitPrefix(tok) ==
    IF tok = <<>> \/ Head(tok) \notin DigitChars
    THEN <<>>
    ELSE <<Head(tok)>> \o DigitPrefix(Tail(tok))

\* int(text) of a sequence of digits
RECURSIVE IntOf(_)
IntOf(text) ==
    IF text = <<>> THEN 0
    ELSE 10 * IntOf(SubSeq(text, 1, Len(text) - 1)) + DigitValue[text[Len(text)]]

Dots(text) == {k \in 1..Len(text) : text[k] = "."}

\* float(text) raises ValueError unless text has a digit and at most one dot
FloatRaises(text) == Cardinality(Dots(text)) > 1 \/ Len(text) = Cardinality(Dots(text))

\* float(text) in thousandths, for text with at most three decimals
FloatOf(text) ==
    IF Dots(text) = {}
    THEN 1000 * IntOf(text)
    ELSE LET p == CHOOSE k \in Dots(text) : TRUE
             frac == SubSeq(text, p + 1, Len(text))
             pad == IF Len(frac) = 0 THEN 1000
                    ELSE IF Len(frac) = 1 THEN 100
                    ELSE IF Len(frac) = 2 THEN 10 ELSE 1
         IN 1000 * IntOf(SubSeq(text, 1, p - 1)) + pad * IntOf(frac)

\* the value of a field whose name= is not in the line
Absent == <<"absent">>

\* re.search(r'name=([\d.]+)', line): the text of group 1, <<>> when there
\* is no match
FloatMatch(ln, name) ==
    IF ln[name] = Absent THEN <<>> ELSE NumberPrefix(ln[name])

IntMatch(ln, name) ==
    IF ln[name] = Absent THEN <<>> ELSE DigitPrefix(ln[name])

FloatFields == <<"win_exp", "win_sns", "deficit", "ratio", "hard", "soft", "pass">>

\* the fields float() is applied to, in the order of the function body, up
\* to the return None of a missing mandatory field
RECURSIVE FieldsTried(_, _)
FieldsTried(ln, k) ==
    IF k > Len(FloatFields) THEN {}
    ELSE IF FloatMatch(ln, FloatFields[k]) = <<>>
    THEN IF k <= 2 THEN {} ELSE FieldsTried(ln, k + 1)
    ELSE {FloatFields[k]} \cup FieldsTried(ln, k + 1)

PassRatioIgnoresPass(ln) ==
    IF FloatMatch(ln, "ratio") # <<>>
    THEN FloatOf(FloatMatch(ln, "ratio"))
    ELSE 0

\* data['pass_ratio']
PassRatio(ln) ==
    IF FloatMatch(ln, "pass") # <<>>
    THEN FloatOf(FloatMatch(ln, "pass"))
    ELSE IF FloatMatch(ln, "ratio") # <<>>
    THEN FloatOf(FloatMatch(ln, "ratio"))
    ELSE 0

\* parse_flow_line(line): None, a ValueError, or the dictionary data
ParseFlowLine(ln) ==
    IF ~ln.flow THEN [kind |-> "None"]
    ELSE IF \E name \in FieldsTried(ln, 1) : FloatRaises(FloatMatch(ln, name))
    THEN [kind |-> "ValueError"]
    ELSE IF FloatMatch(ln, "win_exp") = <<>> \/ FloatMatch(ln, "win_sns") = <<>>
    THEN [kind |-> "None"]
    ELSE [kind |-> "data",
          expected |-> FloatOf(FloatMatch(ln, "win_exp")),
          actual |-> FloatOf(FloatMatch(ln, "win_sns")),
          deficit |-> IF FloatMatch(ln, "deficit") # <<>>
                      THEN <<FloatOf(FloatMatch(ln, "deficit"))>> ELSE <<>>,
          jam_state |-> IF IntMatch(ln, "jam") # <<>>
                        THEN IntOf(IntMatch(ln, "jam")) ELSE 0,
          hard_pct |-> IF FloatMatch(ln, "hard") # <<>>
                       THEN FloatOf(FloatMatch(ln, "hard")) ELSE 0,
          soft_pct |-> IF FloatMatch(ln, "soft") # <<>>
                       THEN FloatOf(FloatMatch(ln, "soft")) ELSE 0,
          pass_ratio |-> PassRatio(ln)]

\* at least this many digits make a raw timestamp
RawTimestampDigits == 10

\* extract_timestamp(line): <<value>> or <<>> for None
ExtractTimestamp(ln) ==
    IF ~ln.ts.bracketed /\ ln.ts.digits >= RawTimestampDigits /\ ln.ts.space
    THEN <<ln.ts.value>>
    ELSE IF ln.ts.bracketed /\ ln.ts.digits >= 1
    THEN <<ln.ts.value>>
    ELSE <<>>

\* f"{v:.2f}" and the like: v in thousandths rounded to a multiple of unit,
\* ties to even, in units of unit
RoundTo(v, unit) ==
    LET q == v \div unit
        r == v % unit
    IN IF 2 * r < unit THEN q
       ELSE IF 2 * r > unit THEN q + 1
       ELSE IF q % 2 = 0 THEN q ELSE q + 1

CsvHeader ==
    "timestamp_ms,expected_mm,actual_mm,deficit_mm,ratio,hard_pct,soft_pct,jam_state,print_status"

\* the row written for the dictionary flow
CsvRow(ts, flow) ==
    [timestamp_ms |-> ts,
     expected_mm |-> RoundTo(flow.expected, 10),
     actual_mm |-> RoundTo(flow.actual, 10),
     deficit_mm |-> RoundTo(IF flow.deficit = <<>> THEN 0 ELSE flow.deficit[1], 10),
     ratio |-> RoundTo(flow.pass_ratio, 1),
     hard_pct |-> RoundTo(flow.hard_pct, 100),
     soft_pct |-> RoundTo(flow.soft_pct, 100),
     jam_state |-> flow.jam_state,
     print_status |-> 13]

\* timestamp prefixes: none, a raw timestamp, digits too few for one, a raw
\* timestamp with no white space after it, a bracketed one
TimestampPrefixes ==
    {[bracketed |-> FALSE, digits |-> 0, space |-> FALSE, value |-> 0],
     [bracketed |-> FALSE, digits |-> 10, space |-> TRUE, value |-> 1764214927],
     [bracketed |-> FALSE, digits |-> 9, space |-> TRUE, value |-> 176421492],
     [bracketed |-> FALSE, digits |-> 10, space |-> FALSE, value |-> 1764214928],
     [bracketed |-> TRUE, digits |-> 5, space |-> FALSE, value |-> 12345]}

\* what follows "win_exp=" and "win_sns="
MandatoryTokens ==
    {Absent, <<"x">>, <<"1", ".", "5">>, <<"2">>, <<"1", ".", "2", ".", "5">>}

NoOptionalFields ==
    [deficit |-> Absent, ratio |-> Absent, jam |-> Absent,
     hard |-> Absent, soft |-> Absent, pass |-> Absent]

AllOptionalFields ==
    [deficit |-> <<"0", ".", "5">>, ratio |-> <<"0", ".", "7">>, jam |-> <<"1">>,
     hard |-> <<"1", "0", ".", "0">>, soft |-> <<"2", "0", ".", "5", "2">>,
     pass |-> <<"0", ".", "7", "5", " ">>]

OptionalFields ==
    {NoOptionalFields, AllOptionalFields,
     [AllOptionalFields EXCEPT !.pass = Absent],
     [AllOptionalFields EXCEPT !.pass = <<"x">>],
     [NoOptionalFields EXCEPT !.pass = <<"1">>],
     [NoOptionalFields EXCEPT !.ratio = <<"1", ".", "2", "5">>],
     [AllOptionalFields EXCEPT !.pass = <<".">>],
     [NoOptionalFields EXCEPT !.deficit = <<"1", ".", ".">>],
     [AllOptionalFields EXCEPT !.jam = <<"1", ".", "5">>]}

\* a line made of a prefix, the marker or not, the two mandatory fields and
\* the optional ones
LogLine(ts, flow, we, ws, opt) ==
    [ts |-> ts, flow |-> flow, win_exp |-> we, win_sns |-> ws,
     deficit |-> opt.deficit, ratio |-> opt.ratio, jam |-> opt.jam,
     hard |-> opt.hard, soft |-> opt.soft, pass |-> opt.pass]

NoTimestamp == [bracketed |-> FALSE, digits |-> 0, space |-> FALSE, value |-> 0]

LogLines ==
    {LogLine(ts, FALSE, Absent, Absent, NoOptionalFields) :
        ts \in TimestampPrefixes}
    \cup {LogLine(ts, FALSE, <<"2">>, <<"2">>, AllOptionalFields) :
        ts \in TimestampPrefixes}
    \cup {LogLine(NoTimestamp, TRUE, we, ws, NoOptionalFields) :
        we \in MandatoryTokens, ws \in MandatoryTokens}
    \cup {LogLine(ts, TRUE, <<"1", ".", "5">>, <<"2">>, opt) :
        ts \in TimestampPrefixes, opt \in {NoOptionalFields, AllOptionalFields}}
    \cup {LogLine(ts, TRUE, Absent, <<"2">>, AllOptionalFields) :
        ts \in TimestampPrefixes}
    \cup {LogLine(NoTimestamp, TRUE, <<"1", ".", "5">>, <<"2">>, opt) :
        opt \in OptionalFields}

\* the lines by what parse_flow_line does with them
LinesSkipped == {ln \in LogLines : ParseFlowLine(ln).kind = "None"}

LinesParsed == {ln \in LogLines : ParseFlowLine(ln).kind = "data"}

LinesRaising == {ln \in LogLines : ParseFlowLine(ln).kind = "ValueError"}

FlowOf == [ln \in LinesParsed |-> ParseFlowLine(ln)]

NoLine == LogLine(NoTimestamp, FALSE, Absent, Absent, NoOptionalFields)

\* previous contents of the output path: no file, or a file of some run
PreviousOutputs ==
    {[exists |-> FALSE, open |-> FALSE, header |-> <<>>, rows |-> 0],
     [exists |-> TRUE, open |-> FALSE, header |-> <<"old">>, rows |-> 1]}

LogInit ==
    /\ input_opens \in BOOLEAN
    /\ output_file \in PreviousOutputs
    /\ last_timestamp = 0
    /\ line_count = 0
    /\ data_count = 0
    /\ log_line = NoLine
    /\ last_row = <<>>
    /\ anchor = <<>>
    /\ lg_error = "none"
    /\ lg_pc = "open_output"

\* extract_log_data.py is not running: no file is open and no line is held
LogIdle ==
    /\ input_opens = FALSE
    /\ output_file = <<>>
    /\ last_timestamp = 0
    /\ line_count = 0
    /\ data_count = 0
    /\ log_line = <<>>
    /\ last_row = <<>>
    /\ anchor = <<>>
    /\ lg_error = "none"
    /\ lg_pc = "done"

\* output_file = open(output_path, 'w'): created or truncated
LogOpenOutputAppends ==
    /\ lg_pc = "open_output"
    /\ output_file' = [output_file EXCEPT !.exists = TRUE, !.open = TRUE]
    /\ lg_pc' = "write_header"
    /\ UNCHANGED <<input_opens, last_timestamp, line_count, data_count, log_line,
                   last_row, anchor, lg_error>>
    /\ UNCHANGED <<chunkVars, parseVars, payloadVars, serveVars, mainVars,
                   secretsVars>>

LogOpenOutput ==
    /\ lg_pc = "open_output"
    /\ output_file' = [exists |-> TRUE, open |-> TRUE, header |-> <<>>, rows |-> 0]
    /\ lg_pc' = "write_header"
    /\ UNCHANGED <<input_opens, last_timestamp, line_count, data_count, log_line,
                   last_row, anchor, lg_error>>
    /\ UNCHANGED <<chunkVars, parseVars, payloadVars, serveVars, mainVars,
                   secretsVars>>

\* output_file.write(header)
LogWriteHeader ==
    /\ lg_pc = "write_header"
    /\ output_file' = [output_file EXCEPT !.header = Append(@, CsvHeader)]
    /\ lg_pc' = "open_input"
    /\ UNCHANGED <<input_opens, last_timestamp, line_count, data_count, log_line,
                   last_row, anchor, lg_error>>
    /\ UNCHANGED <<chunkVars, parseVars, payloadVars, serveVars, mainVars,
                   secretsVars>>

\* open(input_file, ...) succeeds
LogOpenInput ==
    /\ lg_pc = "open_input"
    /\ input_opens
    /\ lg_pc' = "read"
    /\ UNCHANGED <<input_opens, output_file, last_timestamp, line_count,
                   data_count, log_line, last_row, anchor, lg_error>>
    /\ UNCHANGED <<chunkVars, parseVars, payloadVars, serveVars, mainVars,
                   secretsVars>>

\* open(input_file, ...) raises: the finally clause closes output_file and
\* the exception leaves main
LogOpenInputFails ==
    /\ lg_pc = "open_input"
    /\ ~input_opens
    /\ output_file' = [output_file EXCEPT !.open = FALSE]
    /\ lg_error' = "OSError"
    /\ lg_pc' = "failed"
    /\ UNCHANGED <<input_opens, last_timestamp, line_count, data_count, log_line,
                   last_row, anchor>>
    /\ UNCHANGED <<chunkVars, parseVars, payloadVars, serveVars, mainVars,
                   secretsVars>>

\* last_timestamp after the line ln
TimestampAfterKeepsFirst(prev, ln) ==
    IF ExtractTimestamp(ln) # <<>> /\ prev = 0
    THEN ExtractTimestamp(ln)[1] ELSE prev

TimestampAfter(prev, ln) ==
    IF ExtractTimestamp(ln) # <<>> THEN ExtractTimestamp(ln)[1] ELSE prev

\* for line in f: the loop reads the line ln; the ghost anchor keeps the
\* timestamp of the last line that had one
LogReads(ln) ==
    /\ lg_pc = "read"
    /\ line_count < MaxLogLines
    /\ log_line' = ln
    /\ line_count' = line_count + 1
    /\ last_timestamp' = TimestampAfter(last_timestamp, ln)
    /\ anchor' = IF ExtractTimestamp(ln) # <<>> THEN ExtractTimestamp(ln) ELSE anchor
    /\ UNCHANGED <<input_opens>>
    /\ UNCHANGED <<chunkVars, parseVars, payloadVars, serveVars, mainVars,
                   secretsVars>>

\* parse_flow_line returns None: no row
LogSkip ==
    \E ln \in LinesSkipped :
        /\ LogReads(ln)
        /\ UNCHANGED <<output_file, data_count, last_row, lg_error, lg_pc>>

\* parse_flow_line returns data: the row is written
LogRow ==
    \E ln \in LinesParsed :
        /\ LogReads(ln)
        /\ last_row' = <<CsvRow(last_timestamp', FlowOf[ln])>>
        /\ output_file' = [output_file EXCEPT !.rows = @ + 1]
        /\ data_count' = data_count + 1
        /\ UNCHANGED <<lg_error, lg_pc>>

\* float() raises inside parse_flow_line: the with statement and the finally
\* clause close the files and the exception leaves main
LogValueError ==
    \E ln \in LinesRaising :
        /\ LogReads(ln)
        /\ output_file' = [output_file EXCEPT !.open = FALSE]
        /\ lg_error' = "ValueError"
        /\ lg_pc' = "failed"
        /\ UNCHANGED <<data_count, last_row>>

\* end of the input: the statistics are written to stderr and the finally
\* clause closes output_file
LogEof ==
    /\ lg_pc = "read"
    /\ output_file' = [output_file EXCEPT !.open = FALSE]
    /\ lg_pc' = "done"
    /\ UNCHANGED <<input_opens, last_timestamp, line_count, data_count, log_line,
                   last_row, anchor, lg_error>>
    /\ UNCHANGED <<chunkVars, parseVars, payloadVars, serveVars, mainVars,
                   secretsVars>>

NextLog ==
    \/ LogOpenOutput
    \/ LogWriteHeader
    \/ LogOpenInput
    \/ LogOpenInputFails
    \/ LogSkip
    \/ LogRow
    \/ LogValueError
    \/ LogEof

----------------------------------------------------------------------------
\* temporarily_merge_secrets of build_and_flash.py (build_and_release.py has
\* the same function).  A file is absent or holds a text; a text is empty,
\* is not JSON, or is a JSON object, given by its key-value pairs and by
\* whether it is laid out as json.dump(..., indent=2) lays it out.

SecretKeys == {"ssid", "passwd", "elegooip"}

AbsentFile == [exists |-> FALSE, kind |-> "empty", pairs |-> {}, dumped |-> FALSE]

EmptyText == [exists |-> TRUE, kind |-> "empty", pairs |-> {}, dumped |-> FALSE]

InvalidText == [exists |-> TRUE, kind |-> "invalid", pairs |-> {}, dumped |-> FALSE]

JsonText(pairs, dumped) ==
    [exists |-> TRUE, kind |-> "json", pairs |-> pairs, dumped |-> dumped]

SettingsFiles ==
    {AbsentFile, EmptyText, InvalidText}
    \cup {JsonText(ps, d) :
            ps \in {{}, {<<"ssid", "blank">>}, {<<"other", "kept">>},
                    {<<"ssid", "blank">>, <<"other", "kept">>}},
            d \in BOOLEAN}

SecretsFiles ==
    {AbsentFile, InvalidText}
    \cup {JsonText({<<k, "secret">> : k \in ks}, FALSE) : ks \in SUBSET SecretKeys}

\* json.loads(text or "{}"): <<pairs>>, or <<>> when it raises
JsonLoads(text) ==
    IF text.kind = "invalid" THEN <<>> ELSE <<text.pairs>>

\* base_settings[key] = secrets[key] for the three keys
Merged(base, secrets) ==
    {p \in base : \A s \in secrets : s[1] \in SecretKeys => p[1] # s[1]}
    \cup {s \in secrets : s[1] \in SecretKeys}

\* original_text after the try statement that reads settings_path
OriginalTextKept(file) ==
    IF ~file.exists THEN EmptyText ELSE file

OriginalText(file) ==
    IF ~file.exists THEN EmptyText
    ELSE IF JsonLoads(file) = <<>> THEN EmptyText
    ELSE file

BaseSettings(file) ==
    IF ~file.exists \/ JsonLoads(file) = <<>> THEN {} ELSE JsonLoads(file)[1]

SecretsInit ==
    /\ sc_ignore \in BOOLEAN
    /\ body_raises \in BOOLEAN
    /\ secrets_file \in SecretsFiles
    /\ settings_file \in SettingsFiles
    /\ settings_before = settings_file
    /\ original_text = EmptyText
    /\ yielded_value = "none"
    /\ sc_pc = "enter"

\* temporarily_merge_secrets is not running: it holds no file contents
SecretsIdle ==
    /\ sc_ignore = TRUE
    /\ body_raises = FALSE
    /\ secrets_file = <<>>
    /\ settings_file = <<>>
    /\ settings_before = <<>>
    /\ original_text = <<>>
    /\ yielded_value = "none"
    /\ sc_pc = "exited"

\* if ignore: yield False
SecretsIgnored ==
    /\ sc_pc = "enter"
    /\ sc_ignore
    /\ yielded_value' = "False"
    /\ sc_pc' = "body"
    /\ UNCHANGED <<sc_ignore, body_raises, secrets_file, settings_file,
                   settings_before, original_text>>
    /\ UNCHANGED <<chunkVars, parseVars, payloadVars, serveVars, mainVars, logVars>>

\* secrets_path does not exist: FileNotFoundError, the body is not run
SecretsMissing ==
    /\ sc_pc = "enter"
    /\ ~sc_ignore
    /\ ~secrets_file.exists
    /\ sc_pc' = "not_entered"
    /\ UNCHANGED <<sc_ignore, body_raises, secrets_file, settings_file,
                   settings_before, original_text, yielded_value>>
    /\ UNCHANGED <<chunkVars, parseVars, payloadVars, serveVars, mainVars, logVars>>

\* both files are read, the secrets merged, settings_path written: yield True
SecretsMerge ==
    /\ sc_pc = "enter"
    /\ ~sc_ignore
    /\ secrets_file.exists
    /\ original_text' = OriginalText(settings_file)
    /\ LET secrets == IF JsonLoads(secrets_file) = <<>> THEN {}
                      ELSE JsonLoads(secrets_file)[1]
       IN settings_file' = JsonText(Merged(BaseSettings(settings_file), secrets), TRUE)
    /\ yielded_value' = "True"
    /\ sc_pc' = "body"
    /\ UNCHANGED <<sc_ignore, body_raises, secrets_file, settings_before>>
    /\ UNCHANGED <<chunkVars, parseVars, payloadVars, serveVars, mainVars, logVars>>

\* the body ends, normally or with an exception; after yield False the
\* generator returns
SecretsExitIgnored ==
    /\ sc_pc = "body"
    /\ yielded_value = "False"
    /\ sc_pc' = IF body_raises THEN "exited_raising" ELSE "exited"
    /\ UNCHANGED <<sc_ignore, body_raises, secrets_file, settings_file,
                   settings_before, original_text, yielded_value>>
    /\ UNCHANGED <<chunkVars, parseVars, payloadVars, serveVars, mainVars, logVars>>

\* after yield True the finally clause writes original_text to settings_path
SecretsExitRestores ==
    /\ sc_pc = "body"
    /\ yielded_value = "True"
    /\ settings_file' = original_text
    /\ sc_pc' = IF body_raises THEN "exited_raising" ELSE "exited"
    /\ UNCHANGED <<sc_ignore, body_raises, secrets_file, settings_before,
                   original_text, yielded_value>>
    /\ UNCHANGED <<chunkVars, parseVars, payloadVars, serveVars, mainVars, logVars>>

NextSecrets ==
    \/ SecretsIgnored
    \/ SecretsMissing
    \/ SecretsMerge
    \/ SecretsExitIgnored
    \/ SecretsExitRestores

----------------------------------------------------------------------------
\* every other tool at rest
ToolsIdle == MainIdle /\ LogIdle /\ SecretsIdle

----------------------------------------------------------------------------
\* Specifications

\* chunk_extrusion called on any deltas with any parameters
InitChunk == ChunkInit /\ ParseInit /\ PayloadIdle /\ ServeIdle /\ ToolsIdle

SpecChunk == InitChunk /\ [][NextChunk]_vars

\* parse_gcode reading any file
InitParse == ParseInit /\ ChunkIdle /\ PayloadIdle /\ ServeIdle /\ ToolsIdle

SpecParse == InitParse /\ [][NextParse]_vars

\* build_status_payload called on any sample, index and count
InitPayload == PayloadInit /\ ChunkIdle /\ ParseInit /\ ServeIdle /\ ToolsIdle

SpecPayload == InitPayload /\ [][NextPayload]_vars

\* serve_samples serving any list of samples to the clients that connect
InitServe == ServeInit /\ ChunkIdle /\ ParseInit /\ PayloadIdle /\ ToolsIdle

SpecServe == InitServe /\ [][NextServe]_vars

\* main of gcode_flow_sim.py on any arguments and any chunker result
InitMain ==
    /\ MainInit /\ ChunkIdle /\ ParseInit /\ PayloadIdle /\ ServeIdle
    /\ LogIdle /\ SecretsIdle

SpecMain == InitMain /\ [][NextMain]_vars

\* extract_log_data.py on any log and any previous output file
InitLog ==
    /\ LogInit /\ ChunkIdle /\ ParseInit /\ PayloadIdle /\ ServeIdle
    /\ MainIdle /\ SecretsIdle

SpecLog == InitLog /\ [][NextLog]_vars

\* temporarily_merge_secrets around any body, on any two files
InitSecrets ==
    /\ SecretsInit /\ ChunkIdle /\ ParseInit /\ PayloadIdle /\ ServeIdle
    /\ MainIdle /\ LogIdle

SpecSecrets == InitSecrets /\ [][NextSecrets]_vars

\* the event loop runs every handler that is ready
SpecServeFair ==
    /\ SpecServe
    /\ \A c \in Conns : WF_vars(HandlerStep(c))

\* and runner.cleanup(), once called, goes on
SpecServeShutdown ==
    /\ SpecServeFair
    /\ WF_vars(CleanupStopSite)
    /\ \A c \in Conns : WF_vars(CleanupCancelHandler(c))
    /\ WF_vars(CleanupDone)

----------------------------------------------------------------------------
\* Readings of the yielded sample sequence used by the properties below

RECURSIVE SumDelta(_)
SumDelta(k) == IF k = 0 THEN 0 ELSE SumDelta(k - 1) + samples[k].delta_mm

\* the samples cut from input delta j
ChunksOf(j) == {k \in 1..Len(samples) : samples[k].of = j}

RECURSIVE SumMagnitude(_, _)
SumMagnitude(j, k) ==
    IF k = 0 THEN 0
    ELSE SumMagnitude(j, k - 1)
         + (IF samples[k].of = j THEN Abs(samples[k].delta_mm) ELSE 0)

\* the for loop has finished with input delta j
Finished(j) == j < Len(deltas) \/ (j = Len(deltas) /\ ch_pc \in {"for", "done"})

\* input delta j took the retraction branch (it is not positive and
\* retractions are not included)
SkippedAsRetraction(j) == ~include_retractions /\ ~(deltas[j] > 0)

SameSign(a, b) == (a > 0 /\ b > 0) \/ (a < 0 /\ b < 0)

SkippedBefore(j) == Cardinality({i \in 1..(j - 1) : SkippedAsRetraction(i)})

----------------------------------------------------------------------------
\* C1: in the yielded sequence the total_mm of every sample is the sum of the
\* delta_mm of all samples up to and including it, whatever the parameters.
TotalIsRunningSum ==
    \A k \in 1..Len(samples) : samples[k].total_mm = SumDelta(k)

\* C1 witness: three samples of both signs have been yielded, so the last
\* total differs from its own delta.
TotalIsRunningSumWitness ==
    /\ max_chunk_mm > 0
    /\ Len(samples) >= 3
    /\ \E a, b \in 1..Len(samples) :
          samples[a].delta_mm > 0 /\ samples[b].delta_mm < 0
    /\ samples[Len(samples)].total_mm # samples[Len(samples)].delta_mm

\* C2: for every input delta that is not skipped as a retraction, the
\* magnitudes of the sub-chunks cut from it sum to |delta| within the
\* tolerance, and every such sub-chunk has the sign of the delta.
SubChunksSumToDelta ==
    \A j \in 1..Len(deltas) :
        (Finished(j) /\ ~SkippedAsRetraction(j)) =>
            /\ Abs(SumMagnitude(j, Len(samples)) - Abs(deltas[j])) <= Eps
            /\ \A k \in ChunksOf(j) : SameSign(samples[k].delta_mm, deltas[j])

\* The same holds of every run whose ceiling is positive.
SubChunksSumToDeltaPositiveCeiling == max_chunk_mm > 0 => SubChunksSumToDelta

\* C3: every sample has |delta_mm| <= max_chunk_mm; the sub-chunks of one delta
\* are of magnitude max_chunk_mm up to a final remainder; 7.5 with
\* max_chunk_mm 3.0 gives 3.0, 3.0, 1.5 with totals 3.0, 6.0, 7.5.
ChunksWithinCeiling ==
    /\ \A k \in 1..Len(samples) : Abs(samples[k].delta_mm) <= max_chunk_mm
    /\ \A k \in 1..(Len(samples) - 1) :
          samples[k].of = samples[k + 1].of =>
              Abs(samples[k].delta_mm) = max_chunk_mm
    /\ (deltas = <<7500000>> /\ max_chunk_mm = 3000000 /\ ch_pc = "done") =>
          /\ Len(samples) = 3
          /\ [k \in 1..3 |-> samples[k].delta_mm] = <<3000000, 3000000, 1500000>>
          /\ [k \in 1..3 |-> samples[k].total_mm] = <<3000000, 6000000, 7500000>>

\* The same holds of every run whose ceiling is positive.
ChunksWithinCeilingPositiveCeiling == max_chunk_mm > 0 => ChunksWithinCeiling

\* C4: with include_retractions false, taking a negative delta of any
\* magnitude yields no sample, leaves total unchanged and advances timestamp
\* by exactly one interval_ms.
RetractionCostsOneTick ==
    [][(/\ ~include_retractions
        /\ Len(deltas') = Len(deltas) + 1
        /\ deltas'[Len(deltas')] < 0)
       => (/\ samples' = samples
           /\ total' = total
           /\ timestamp' = timestamp + interval_ms
           /\ ch_pc' = "for")]_vars

\* C4 witness: after a sample was yielded, a retraction larger than
\* max_chunk_mm has been skipped and the clock stands one tick further.
RetractionCostsOneTickWitness ==
    /\ ~include_retractions
    /\ max_chunk_mm > 0
    /\ interval_ms # 0
    /\ Len(deltas) = 2
    /\ deltas[1] > 0
    /\ deltas[2] < -max_chunk_mm
    /\ ch_pc = "for"
    /\ Len(samples) = 1
    /\ total = samples[1].total_mm
    /\ timestamp = 2 * interval_ms

\* C5: one tick per yielded sub-chunk: the timestamp of every sample is
\* interval_ms times (the samples yielded before it plus the retraction deltas
\* skipped before it), so the sub-chunks of one delta are interval_ms apart.
OneTickPerSample ==
    /\ \A k \in 1..Len(samples) :
          samples[k].timestamp_ms
              = interval_ms * ((k - 1) + SkippedBefore(samples[k].of))
    /\ \A k \in 1..(Len(samples) - 1) :
          samples[k].of = samples[k + 1].of =>
              samples[k + 1].timestamp_ms = samples[k].timestamp_ms + interval_ms

\* C5 witness: a sample yielded after a skipped retraction and after at least
\* two other samples, with a tick that is not zero.
OneTickPerSampleWitness ==
    /\ interval_ms > 0
    /\ max_chunk_mm > 0
    /\ \E k \in 3..Len(samples) :
          /\ SkippedBefore(samples[k].of) >= 1
          /\ samples[k].of = samples[k - 1].of

\* C6: timestamp_ms never decreases from one yielded sample to the next, for
\* every interval_ms the caller can pass.
TimestampsNeverDecrease ==
    \A k \in 1..(Len(samples) - 1) :
        samples[k].timestamp_ms <= samples[k + 1].timestamp_ms

\* The same holds of every run whose interval is not negative.
TimestampsNeverDecreaseForwardClock == interval_ms >= 0 => TimestampsNeverDecrease

\* C7: the decomposition loop of every delta terminates for every parameter
\* value, stated as its progress measure: the loop runs while remaining > 1e-6
\* and nothing but the loop body changes remaining, so it ends only if every
\* iteration lowers remaining.
InnerLoopTerminates ==
    [][(ch_pc = "while" /\ Len(samples') = Len(samples) + 1)
       => remaining' < remaining]_vars

\* The same holds of every run whose ceiling is not zero.
InnerLoopTerminatesNonZeroCeiling ==
    [][(max_chunk_mm # 0 /\ ch_pc = "while" /\ Len(samples') = Len(samples) + 1)
       => remaining' < remaining]_vars

----------------------------------------------------------------------------
\* Readings of a parse_gcode step used by the properties below

\* the step reads a line
LineRead == line_no' = line_no + 1

\* the line the step reads
NewLine == raw_line'

\* the command word of a line, "" for a blank or comment-only line
CommandOf(ln) ==
    IF Stripped(ln) = <<>> THEN "" ELSE Command(Stripped(ln))

\* the extrusion value of a line: <<v>>, or <<>> when it has none
ValueOf(ln) == ExtractExtrusionValue(Stripped(ln))

\* the step reads a G0/G1 line that carries an extrusion value
MoveRead ==
    LineRead /\ CommandOf(NewLine) \in {"G0", "G1"} /\ ValueOf(NewLine) # <<>>

\* the step reads a G1 with a value in absolute mode right after a G92 with a value
G1AfterG92 ==
    /\ MoveRead
    /\ absolute_mode
    /\ CommandOf(NewLine) = "G1"
    /\ line_no >= 1
    /\ CommandOf(raw_line) = "G92"
    /\ ValueOf(raw_line) # <<>>

\* delta and last_e after a G0/G1 line with value v
MoveComputesDelta ==
    MoveRead =>
        LET v == ValueOf(NewLine)[1]
        IN /\ absolute_mode => (delta' = v - last_e /\ last_e' = v)
           /\ ~absolute_mode => delta' = v

----------------------------------------------------------------------------
\* C8 as stated: a G0/G1 line with value v computes delta = v - last_e and
\* sets last_e = v in absolute mode, delta = v in relative mode; and in
\* absolute mode a G92 with value a followed by a G1 with value b yields
\* exactly one delta, b - a.
MoveDeltaAlwaysYielded ==
    [][/\ MoveComputesDelta
       /\ G1AfterG92 =>
            LET a == ValueOf(raw_line)[1]
                b == ValueOf(NewLine)[1]
            IN yielded' = Append(yielded, b - a)]_vars

\* C8 amended: the same, but the G1 after the G92 yields the one delta b - a
\* only when |b - a| > 1e-6, and yields nothing otherwise.
MoveDeltaYieldedIfMove ==
    [][/\ MoveComputesDelta
       /\ G1AfterG92 =>
            LET a == ValueOf(raw_line)[1]
                b == ValueOf(NewLine)[1]
            IN yielded' = IF Abs(b - a) > Eps THEN Append(yielded, b - a)
                          ELSE yielded]_vars

\* C8 witness: G92 E0 then G1 E5 in absolute mode has yielded the single
\* delta +5.0.
MoveDeltaWitness ==
    /\ line_no = 2
    /\ prev_line = <<Word("G92"), E(0)>>
    /\ raw_line = <<Word("G1"), E(5000000)>>
    /\ absolute_mode
    /\ delta = 5000000
    /\ last_e = 5000000
    /\ yielded = <<5000000>>

\* C9: no yielded delta has magnitude at most 1e-6, and a G0/G1 move in
\* absolute mode whose value equals last_e yields nothing.
NoNegligibleDelta ==
    [][/\ \A i \in 1..Len(yielded') : Abs(yielded'[i]) > Eps
       /\ (MoveRead /\ absolute_mode /\ ValueOf(NewLine)[1] = last_e)
             => yielded' = yielded]_vars

\* C9 witness: two identical G1 E5 lines have been read and only the first
\* yielded a delta.
NoNegligibleDeltaWitness ==
    /\ line_no = 2
    /\ prev_line = <<Word("G1"), E(5000000)>>
    /\ raw_line = <<Word("G1"), E(5000000)>>
    /\ absolute_mode
    /\ delta = 0
    /\ yielded = <<5000000>>

\* C10: only G0/G1 lines yield; M82/G90 and M83/G91 change only
\* absolute_mode; G92 changes only last_e, and only when it carries a value;
\* any other command, a blank line and a comment-only line change nothing.
OnlyMovesYield ==
    [][LineRead =>
         LET c == CommandOf(NewLine)
         IN /\ c \in {"M82", "G90"} =>
                  absolute_mode' = TRUE /\ UNCHANGED <<last_e, yielded>>
            /\ c \in {"M83", "G91"} =>
                  absolute_mode' = FALSE /\ UNCHANGED <<last_e, yielded>>
            /\ c = "G92" =>
                  /\ UNCHANGED <<absolute_mode, yielded>>
                  /\ last_e' = IF ValueOf(NewLine) # <<>>
                               THEN ValueOf(NewLine)[1] ELSE last_e
            /\ c \notin {"M82", "G90", "M83", "G91", "G92", "G0", "G1"} =>
                  UNCHANGED <<absolute_mode, last_e, yielded>>
            /\ yielded' # yielded => c \in {"G0", "G1"}]_vars

\* C10 witness: after G92 E5, an M83 and then an unrecognised command
\* carrying an E word were read: the origin is 5.0, the mode is relative and
\* nothing was yielded.
OnlyMovesYieldWitness ==
    /\ line_no = 3
    /\ prev_line = <<Word("M83")>>
    /\ raw_line = <<Word("G28"), E(1)>>
    /\ ~absolute_mode
    /\ last_e = 5000000
    /\ yielded = <<>>

----------------------------------------------------------------------------
\* C11: garbage lines (blank, comment-only, unrecognised commands, G0/G1 with
\* no parseable extrusion value) at any positions never raise an error and do
\* not change the deltas yielded for the valid lines: the run on the file and
\* the run on the file without its garbage lines are in the same mode, at the
\* same origin and have yielded the same deltas after every line, and the run
\* only ever reads on or returns.
GarbageLinesIgnored ==
    /\ pg_pc \in {"read", "done"}
    /\ clean = [absolute_mode |-> absolute_mode, last_e |-> last_e,
                yielded |-> yielded]

\* C11 witness: a valid move, then a garbage G1 with no number after its E,
\* then another valid move: both moves have yielded their deltas.
GarbageLinesIgnoredWitness ==
    /\ line_no = 3
    /\ prev_line = <<Word("G1"), Word("E?")>>
    /\ raw_line = <<Word("G1"), E(1)>>
    /\ absolute_mode
    /\ yielded = <<5000000, -4999999>>

----------------------------------------------------------------------------
\* Readings of the server state used by the properties below

\* the handler of c has left the streaming loop
Ended(c) == conn[c].pc \in {"close", "returned", "raised"}

\* the replay of c ran to its end: no send failed and nothing was cancelled
EndedNormally(c) == Ended(c) /\ conn[c].exc = "none"

\* C12: with repeat=False a connection never gets more than len(samples)
\* frames, the stream that ends by itself has sent exactly len(samples)
\* frames, and the handler that returned has closed the WebSocket.
OnePassThenClose ==
    ~repeat =>
        \A c \in Conns :
            /\ Len(conn[c].log) <= SampleCount
            /\ conn[c].pc = "send" => Len(conn[c].log) < SampleCount
            /\ EndedNormally(c) => Len(conn[c].log) = SampleCount
            /\ conn[c].pc = "returned" => ~conn[c].open /\ conn[c].closes = 1

OnePassThenCloseWitness ==
    /\ ~repeat
    /\ SampleCount = 2
    /\ conn[1].pc = "returned"
    /\ conn[1].client = "connected"
    /\ Len(conn[1].log) = 2
    /\ ~conn[1].open
    /\ conn[2].pc = "sleep"
    /\ Len(conn[2].log) = 1

\* C13: with repeat=True the replay never ends on its own -- a handler
\* leaves the loop only on a failed send or a cancellation, and a connection
\* on which neither happens is sent frames again and again -- and the sleep
\* after a frame is the same as one pass earlier.
RepeatKeepsSpacing ==
    repeat =>
        \A c \in Conns :
            /\ Ended(c) => conn[c].exc # "none"
            /\ \A k \in 1..Len(conn[c].log) :
                   k + SampleCount <= Len(conn[c].log) =>
                       conn[c].log[k + SampleCount].sleep = conn[c].log[k].sleep

RepeatNeverEnds ==
    /\ []RepeatKeepsSpacing
    /\ \A c \in Conns :
          \/ []<><<Send(c)>>_vars
          \/ <>(~repeat \/ conn[c].exc # "none")
          \/ <>[](conn[c].pc = "none")

RepeatNeverEndsWitness ==
    /\ repeat
    /\ SampleCount = 2
    /\ conn[1].client = "connected"
    /\ conn[1].pc = "send"
    /\ Len(conn[1].log) = 4
    /\ conn[1].log[1].sleep.num = 250
    /\ conn[1].log[2].sleep.num = 0
    /\ conn[1].log[3].sleep.num = 250
    /\ conn[2].pc = "raised"

\* the multiplier the pacing divides by, in thousandths: a speed below the
\* floor counts as the floor
EffectiveSpeed == IF speed < SpeedFloor THEN SpeedFloor ELSE speed

\* the pause in milliseconds after the sample at index i, as the fraction
\* num / den: the gap to the next timestamp, after the last sample the
\* first timestamp, divided by the multiplier
PaceMs(i) ==
    LET gap == IF i + 1 < SampleCount
               THEN replay_samples[i + 2].timestamp_ms
                        - replay_samples[i + 1].timestamp_ms
               ELSE replay_samples[1].timestamp_ms
    IN [num |-> gap * 1000, den |-> EffectiveSpeed]

\* a task is suspended for the time asked, and not at all when the time
\* asked is not positive; sleep is in seconds, pace in milliseconds
SuspendsFor(sleep, pace) ==
    Max(sleep.num, 0) * 1000 * pace.den = Max(pace.num, 0) * sleep.den

\* C14: after the frame of sample i that is not the last the handler sleeps
\* (timestamp[i+1] - timestamp[i]) / speed ms and the next frame is that of
\* sample i+1; after the last sample it sleeps timestamp[0] / speed ms and
\* the next frame is that of sample 0 when repeat is set, and sends nothing
\* more otherwise; a speed below 0.001 counts as 0.001.
PacedByTimestamps ==
    \A c \in Conns :
        \A k \in 1..Len(conn[c].log) :
            LET i == conn[c].log[k].index
                last == i + 1 >= SampleCount
            IN /\ (~last \/ repeat) =>
                      SuspendsFor(conn[c].log[k].sleep, PaceMs(i))
               /\ k < Len(conn[c].log) =>
                      /\ ~last => conn[c].log[k + 1].index = i + 1
                      /\ last => repeat /\ conn[c].log[k + 1].index = 0
               /\ (last /\ ~repeat /\ k = Len(conn[c].log)) =>
                      conn[c].pc # "send"

PacedByTimestampsWitness ==
    /\ repeat
    /\ speed = 0
    /\ SampleCount = 2
    /\ Len(conn[1].log) = 3
    /\ conn[1].log[1].sleep = [num |-> 250, den |-> 1]
    /\ conn[1].log[2].sleep = [num |-> 0, den |-> 1]
    /\ conn[1].log[3].index = 0
    /\ conn[1].pc = "sleep"

\* C15: the frame sent for the last sample (index = count - 1) has
\* Progress 100.
LastFrameProgressIs100 ==
    \A c \in Conns :
        \A k \in 1..Len(conn[c].log) :
            conn[c].log[k].index = SampleCount - 1 =>
                conn[c].log[k].frame.Progress = 100

\* floor(a / b) for a >= 0 and b > 0, by its defining inequality
FloorOf(a, b) == CHOOSE q \in 0..a : q * b <= a /\ a < (q + 1) * b

\* C16: the payload built for index and count has Progress =
\* floor(index*100/count) clamped to [0,100], 0 when count is 0,
\* CurrentTicks = min(index, count) and TotalTicks = count; so Progress is
\* within 0..100 and CurrentTicks is at most TotalTicks.
PayloadFields ==
    sp_payload # <<>> =>
        LET f == IF sp_count = 0 THEN 0 ELSE FloorOf(sp_index * 100, sp_count)
        IN /\ sp_payload.Progress = IF f > 100 THEN 100 ELSE IF f < 0 THEN 0 ELSE f
           /\ sp_payload.CurrentTicks
                  = IF sp_index <= sp_count THEN sp_index ELSE sp_count
           /\ sp_payload.TotalTicks = sp_count
           /\ sp_payload.Progress \in 0..100
           /\ sp_payload.CurrentTicks <= sp_payload.TotalTicks

PayloadFieldsWitness ==
    /\ sp_index = 6
    /\ sp_count = 4
    /\ sp_payload # <<>>
    /\ sp_payload.Progress = 100
    /\ sp_payload.CurrentTicks = 4
    /\ sp_payload.TotalTicks = 4

\* the same bounds on the frames a replay sends
FramesWithinRange ==
    \A c \in Conns :
        \A k \in 1..Len(conn[c].log) :
            /\ conn[c].log[k].frame.Progress \in 0..100
            /\ conn[c].log[k].frame.CurrentTicks <= conn[c].log[k].frame.TotalTicks

\* what two connections were sent agrees frame by frame as far as both got
SameReplay(c, d) ==
    \A k \in 1..Min(Len(conn[c].log), Len(conn[d].log)) :
        conn[c].log[k] = conn[d].log[k]

\* C17: every connection is sent the replay from sample 0 with a position
\* of its own: whenever and in whatever state the other connections are,
\* the frames of two connections are the same replay as far as each got,
\* and a step of one connection leaves the others as they are.
IndependentReplays ==
    /\ [](\A c \in Conns :
            /\ conn[c].log # <<>> => conn[c].log[1].index = 0
            /\ \A d \in Conns : SameReplay(c, d))
    /\ [][\A c \in Conns :
            conn'[c] # conn[c] =>
                \A d \in Conns \ {c} : conn'[d] = conn[d]]_vars

IndependentReplaysWitness ==
    /\ SampleCount = 2
    /\ repeat
    /\ conn[1].pc = "sleep"
    /\ conn[1].index = 0
    /\ Len(conn[1].log) = 3
    /\ conn[2].pc = "raised"
    /\ conn[2].exc = "send_failed"
    /\ Len(conn[2].log) = 2

\* C18: within each pass the k-th frame of a connection carries the
\* CurrentExtrusion and TotalExtrusion of sample k, rounded to 6 decimals,
\* and its position k: frames follow the sample sequence with none skipped,
\* duplicated or reordered.
FramesInSampleOrder ==
    \A c \in Conns :
        \A k \in 1..Len(conn[c].log) :
            LET i == (k - 1) % SampleCount
                f == conn[c].log[k].frame
            IN /\ f.CurrentTicks = i
               /\ f.CurrentExtrusion - replay_samples[i + 1].delta_mm \in -5..5
               /\ f.CurrentExtrusion % 10 = 0
               /\ f.TotalExtrusion - replay_samples[i + 1].total_mm \in -5..5
               /\ f.TotalExtrusion % 10 = 0

FramesInSampleOrderWitness ==
    /\ replay_samples = <<[timestamp_ms |-> 250, delta_mm |-> -26, total_mm |-> 8],
                          [timestamp_ms |-> 0, delta_mm |-> 17, total_mm |-> 34]>>
    /\ Len(conn[2].log) = 3
    /\ conn[2].log[1].frame.CurrentExtrusion = -30
    /\ conn[2].log[2].frame.CurrentExtrusion = 20
    /\ conn[2].log[2].frame.TotalExtrusion = 30
    /\ conn[2].log[3].frame.TotalExtrusion = 10
    /\ conn[2].log[3].frame.CurrentTicks = 0

\* the handler of c has ended and its WebSocket is closed
Over(c) == conn[c].pc \in {"returned", "raised"} /\ ~conn[c].open

\* C19: once the client of a connection is gone no further frame is sent to
\* it and its handler ends with the WebSocket closed; the failure changes
\* neither the listener nor serve_samples nor any other connection, and a
\* listener that is serving still accepts the next client.
DisconnectEndsOneReplay ==
    /\ [][\A c \in Conns :
            /\ (conn[c].client = "gone" /\ conn[c].pc = "send") =>
                   conn'[c].pc \in {"send", "close"}
            /\ conn[c].client = "gone" => conn'[c].log = conn[c].log
            /\ (conn'[c] # conn[c]
                    /\ (conn'[c].client = "gone" \/ conn'[c].exc = "send_failed")) =>
                   /\ listener' = listener
                   /\ main_pc' = main_pc
                   /\ \A d \in Conns \ {c} : conn'[d] = conn[d]]_vars
    /\ [](\A c \in Conns :
            (conn[c].exc = "send_failed" /\ main_pc = "serving") =>
                /\ listener = "listening"
                /\ \A d \in Conns : conn[d].pc = "none" => ENABLED Accept(d))
    /\ \A c \in Conns : <>[](conn[c].client = "gone" => Over(c))

DisconnectEndsOneReplayWitness ==
    /\ repeat
    /\ SampleCount = 2
    /\ main_pc = "serving"
    /\ listener = "listening"
    /\ conn[1].pc = "raised"
    /\ conn[1].exc = "send_failed"
    /\ ~conn[1].open
    /\ Len(conn[1].log) = 1
    /\ conn[2].pc = "send"
    /\ conn[2].client = "connected"
    /\ Len(conn[2].log) = 3

\* C20: a cancellation of serve_samples while it serves runs
\* runner.cleanup(); a handler cancelled while sending or while sleeping
\* calls ws.close(); the shutdown completes, and once serve_samples has
\* ended the listener is not listening and every connection that was
\* accepted has ended with its WebSocket closed by one call of ws.close().
ShutdownReleasesAll ==
    /\ [][/\ (main_pc = "serving" /\ main_pc' # "serving") => main_pc' = "cleanup"
          /\ \A c \in Conns :
                (conn[c].pc \in {"send", "sleep"} /\ conn'[c].exc = "cancelled") =>
                    conn'[c].pc = "close" /\ conn'[c].closes = 1]_vars
    /\ [](main_pc \in {"stopped", "aborted"} =>
            /\ listener # "listening"
            /\ \A c \in Conns :
                  /\ ~conn[c].open
                  /\ conn[c].pc # "none" => Over(c) /\ conn[c].closes = 1)
    /\ <>[](main_pc # "cleanup")

ShutdownReleasesAllWitness ==
    /\ main_pc = "stopped"
    /\ listener = "released"
    /\ repeat
    /\ conn[1].pc = "raised"
    /\ conn[1].exc = "cancelled"
    /\ Len(conn[1].log) = 2
    /\ conn[2].pc = "raised"
    /\ conn[2].exc = "cancelled"
    /\ Len(conn[2].log) = 0

\* C21: when the chunker yields no sample, main with --serve ends in a fatal
\* error without calling serve_samples, and main without --serve ends well
\* having printed the table header alone, or no JSON line at all.
EmptySamplesServeFatalFormatOk ==
    (m_pc = "done" /\ gcode_exists /\ main_samples = <<>>) =>
        IF args_serve
        THEN exit_status = "fatal" /\ ~served /\ stdout = <<>>
        ELSE /\ exit_status = "ok"
             /\ ~served
             /\ stdout[1] = IF args_output = "table"
                             THEN <<"timestamp_ms,delta_mm,total_mm">>
                             ELSE <<>>
             /\ stdout[2].generated = 0

EmptySamplesServeFatalFormatOkWitness ==
    /\ m_pc = "done"
    /\ gcode_exists
    /\ main_samples = <<>>
    /\ args_serve
    /\ exit_status = "fatal"
    /\ ~served

----------------------------------------------------------------------------
\* Readings of the log extractor used by the properties below

\* the line starts with ten or more digits and white space, or with digits
\* in brackets
TimestampBearing(ln) ==
    \/ ~ln.ts.bracketed /\ ln.ts.digits >= 10 /\ ln.ts.space
    \/ ln.ts.bracketed /\ ln.ts.digits > 0

\* the timestamp of the last timestamp-bearing line read so far, 0 if none
Anchored == IF anchor = <<>> THEN 0 ELSE anchor[1]

\* the step reads a line
LogLineRead == line_count' = line_count + 1

\* the step writes a row
RowWritten == output_file'.rows = output_file.rows + 1

\* C22: the timestamp of every row written is that of the data line itself
\* if it has one, else that of the last timestamp-bearing line before it,
\* else 0; a line without a timestamp leaves last_timestamp as it was.
RowsCarryLastTimestamp ==
    /\ [](last_timestamp = Anchored)
    /\ [][/\ RowWritten =>
               last_row'[1].timestamp_ms =
                   IF TimestampBearing(log_line') THEN log_line'.ts.value
                   ELSE Anchored
          /\ (LogLineRead /\ ~TimestampBearing(log_line')) =>
               last_timestamp' = last_timestamp]_vars

RowsCarryLastTimestampWitness ==
    /\ line_count = 3
    /\ data_count = 1
    /\ log_line \in LinesParsed
    /\ ~TimestampBearing(log_line)
    /\ anchor = <<12345>>
    /\ last_row[1].timestamp_ms = 12345
    /\ lg_pc = "read"

\* the line holds name= followed by a number
HasNumber(ln, name) ==
    /\ ln[name] # Absent
    /\ ln[name] # <<>>
    /\ ln[name][1] \in DigitChars \cup {"."}

\* the row has its nine columns
CompleteRow(row) ==
    DOMAIN row = {"timestamp_ms", "expected_mm", "actual_mm", "deficit_mm",
                  "ratio", "hard_pct", "soft_pct", "jam_state", "print_status"}

\* C23: a line read gives a row iff it holds Flow: and both win_exp and
\* win_sns, and the row written has all nine columns.
RowIffMarkerAndMandatoryFields ==
    [][LogLineRead =>
          /\ RowWritten <=> /\ log_line'.flow
                            /\ HasNumber(log_line', "win_exp")
                            /\ HasNumber(log_line', "win_sns")
          /\ RowWritten => CompleteRow(last_row'[1])]_vars

\* the same for the lines on which float() does not raise
RowIffMarkerAndMandatoryFieldsUnlessRaised ==
    [][(LogLineRead /\ lg_error' = "none") =>
          /\ RowWritten <=> /\ log_line'.flow
                            /\ HasNumber(log_line', "win_exp")
                            /\ HasNumber(log_line', "win_sns")
          /\ RowWritten => CompleteRow(last_row'[1])]_vars

\* C24: no line read is fatal: after every line the loop goes on reading.
UnparseableNeverFatal ==
    [][LogLineRead => lg_pc' = "read" /\ lg_error' = "none"]_vars

\* C25: the ratio column of a row written is the value of pass= when the
\* line has one, else the value of ratio= when it has one, else 0.
RatioColumnFromPass ==
    [][RowWritten =>
          last_row'[1].ratio =
              IF HasNumber(log_line', "pass")
              THEN FloatOf(NumberPrefix(log_line'.pass))
              ELSE IF HasNumber(log_line', "ratio")
              THEN FloatOf(NumberPrefix(log_line'.ratio))
              ELSE 0]_vars

RatioColumnFromPassWitness ==
    /\ line_count = 2
    /\ data_count = 2
    /\ log_line \in LinesParsed
    /\ log_line.pass = <<"0", ".", "7", "5", " ">>
    /\ log_line.ratio = <<"0", ".", "7">>
    /\ last_row[1].ratio = 750

\* C30: the output is created or truncated and the header written before
\* the input is opened; when the input cannot be opened the error leaves
\* main, the output file is closed and holds the header row alone.
HeaderBeforeInput ==
    /\ lg_pc = "open_input" =>
          /\ output_file.open
          /\ output_file.header = <<CsvHeader>>
          /\ output_file.rows = 0
    /\ ~input_opens /\ lg_pc \in {"done", "failed"} =>
          /\ lg_pc = "failed"
          /\ lg_error = "OSError"
          /\ output_file.exists
          /\ ~output_file.open
          /\ output_file.header = <<CsvHeader>>
          /\ output_file.rows = 0

HeaderBeforeInputWitness ==
    /\ ~input_opens
    /\ lg_pc = "failed"
    /\ lg_error = "OSError"
    /\ ~output_file.open
    /\ output_file.header = <<CsvHeader>>

----------------------------------------------------------------------------
\* C26: after the context of temporarily_merge_secrets has been left, by
\* the end of the body or by an exception, the file at settings_path is what
\* it was at entry.
SettingsRestored ==
    sc_pc \in {"exited", "exited_raising"} => settings_file = settings_before

\* the same when the file at entry existed and was empty or JSON, or when
\* ignore is set
SettingsRestoredIfParsed ==
    (/\ sc_pc \in {"exited", "exited_raising"}
     /\ \/ sc_ignore
        \/ settings_before.exists /\ settings_before.kind # "invalid") =>
        settings_file = settings_before

----------------------------------------------------------------------------
----------------------------------------------------------------------------
\* C28: in repeat mode the frames of a connection are periodic with period
\* count: the k-th frame sent, counting from 0, is exactly the payload built
\* from sample k mod count with index k mod count, it equals the frame sent
\* count frames earlier, and at the start of every pass TotalExtrusion,
\* Progress and CurrentTicks are those of the first frame.
RepeatIsPeriodic ==
    repeat =>
        \A c \in Conns :
            \A k \in 1..Len(conn[c].log) :
                LET log == conn[c].log
                    i == (k - 1) % SampleCount
                    s == replay_samples[i + 1]
                IN /\ log[k].frame =
                          BuildStatusPayload(s.delta_mm, s.total_mm, i, SampleCount)
                   /\ log[k].index = i
                   /\ k > SampleCount => log[k].frame = log[k - SampleCount].frame
                   /\ i = 0 =>
                         /\ log[k].frame.TotalExtrusion = log[1].frame.TotalExtrusion
                         /\ log[k].frame.Progress = log[1].frame.Progress
                         /\ log[k].frame.CurrentTicks = log[1].frame.CurrentTicks

\* C28 witness: a connection in repeat mode has been sent two full passes
\* of two samples; the third frame repeats the first and differs from the
\* second.
RepeatIsPeriodicWitness ==
    /\ repeat
    /\ SampleCount = 2
    /\ \E c \in Conns :
          /\ Len(conn[c].log) = 4
          /\ conn[c].log[3].frame = conn[c].log[1].frame
          /\ conn[c].log[4].frame = conn[c].log[2].frame
          /\ conn[c].log[3].frame.TotalExtrusion # conn[c].log[2].frame.TotalExtrusion
          /\ conn[c].log[3].frame.Progress < conn[c].log[2].frame.Progress

----------------------------------------------------------------------------
\* the replay of c has ended: stream_samples returned or raised
ReplayEnded(c) == conn[c].pc \in {"close", "returned", "raised"}

\* C29: for every accepted connection ws.close() has been called exactly
\* once as soon as its replay has ended, whether all samples were sent, a
\* send failed or the handler was cancelled, and never before; the handler
\* ends with the WebSocket closed; and once close has been called no frame
\* is sent on the connection and close is not called again.
ClosedOnceAtEnd ==
    /\ [](\A c \in Conns :
            /\ conn[c].closes = (IF ReplayEnded(c) THEN 1 ELSE 0)
            /\ ReplayEnded(c) => conn[c].exc \in {"none", "send_failed", "cancelled"}
            /\ conn[c].pc \in {"returned", "raised"} => ~conn[c].open)
    /\ [][\A c \in Conns :
            conn[c].closes >= 1 =>
                /\ ~Send(c)
                /\ conn'[c].log = conn[c].log
                /\ conn'[c].closes = conn[c].closes]_vars

\* C29 witness: one connection was sent every sample and one was cancelled
\* after its first frame; each was closed once and is closed.
ClosedOnceAtEndWitness ==
    /\ ~repeat
    /\ SampleCount = 2
    /\ conn[1].pc = "returned" /\ conn[1].exc = "none"
    /\ Len(conn[1].log) = 2
    /\ conn[1].closes = 1 /\ ~conn[1].open
    /\ conn[2].pc = "raised" /\ conn[2].exc = "cancelled"
    /\ Len(conn[2].log) = 1
    /\ conn[2].closes = 1 /\ ~conn[2].open

============================================================================
